---- MODULE Spec2Model ----
(***************************************************************************)
(* Cross-section mesh generation of osmg (src/src/osmg/gen/mesh_shapes.py). *)
(*                                                                         *)
(* One behaviour is one mesh-construction call: a section generator        *)
(* (rect_mesh, HSS_rect_mesh, HSS_circ_mesh) or a caller with a custom     *)
(* polygon or a raw edge list builds its vertices, define_edges joins      *)
(* them, and generate runs the half-edge builder, the loop tracer, the     *)
(* loop classifier and the sanity checker and builds the Mesh, from which  *)
(* generic_snap_points derives the snap points.                            *)
(*                                                                         *)
(* The functions generate imports from osmg.mesh (define_halfedges,        *)
(* obtain_closed_loops, orient_loops, sanity_checks, Mesh) are not part of *)
(* the sources at hand; they are modelled from sections 3 and 4 of the     *)
(* specification.  Everything else follows mesh_shapes.py line by line.    *)
(*                                                                         *)
(* Numbers.  All coordinates are integers.  The hollow sections are        *)
(* measured in units of common.EPSILON (so the seam offset is 1); b, ht    *)
(* and the rectangle's b, h are even, so that b/2 is exact.  The circle is *)
(* discretised only with point counts whose angles are multiples of a      *)
(* quarter turn, where sin and cos are exactly 0, 1 or -1.                 *)
(*                                                                         *)
(* Further specifications, each with its own initial states and steps,     *)
(* cover the fillet radius of w_mesh (WSpec), Collection (CollectionSpec)  *)
(* and ComponentAssemblyCollection (AssembliesSpec) of                     *)
(* core/osmg_collections.py, PointLoad and PointMass of load_case.py       *)
(* (LoadsSpec), and common.previous_element (PreviousSpec).  The variables *)
(* of the parts a specification does not cover keep their initial values.  *)
(***************************************************************************)
EXTENDS Integers, Sequences, FiniteSets, TLC

VARIABLES
    shape,      \* <<generator, p1, p2, p3>>: who builds the mesh, with its arguments
    vtab,       \* the Vertex objects of this call: index -> <<z, y>>
    vertices,   \* the vertex list handed to define_edges (indices into vtab)
    edges,      \* the edge list: Edge(v_i, v_j) as <<i, j>>
    nxt,        \* half-edge -> its `next` half-edge (set by the builder)
    visited,    \* half-edges the tracer has marked visited
    cur,        \* the walk the tracer is on (<<>> between walks)
    loops,      \* the closed loops traced so far
    external,   \* classifier outcome: counterclockwise loops
    internal,   \* classifier outcome: clockwise loops
    trivial,    \* classifier outcome: loops without area
    mesh,       \* the vertices of the Mesh generate returned (<<>>: none)
    snap,       \* the result of generic_snap_points
    pc,         \* the step the call is at
    err,        \* the error the call ended with ("" : none)
    w_args,     \* w_mesh: <<b, h, tw, tf, target_area>>
    area_diff,  \* w_mesh: the local area_diff
    r_fillet,   \* w_mesh: the local r, the fillet radius
    collection, \* a Collection: uid -> object
    assemblies, \* a ComponentAssemblyCollection as a dict: uid -> assembly
    connectivity_map, \* its connectivity_map: sorted node uids -> assembly uid
    point_load, \* a PointLoad: its fields other and floor
    point_mass, \* a PointMass: its fields mself and floor
    dct,        \* the ordered dict handed to previous_element
    call,       \* the last call made on these objects, with its arguments
    ret         \* what the last call returned

\* the state of a mesh-construction call, apart from its position
meshdata == <<shape, vtab, vertices, edges, nxt, visited, cur, loops,
              external, internal, trivial, mesh, snap>>

\* the local variables of a w_mesh call
wvars == <<w_args, area_diff, r_fillet>>

\* a ComponentAssemblyCollection
avars == <<assemblies, connectivity_map>>

\* the loads of osmg.load_case
lvars == <<point_load, point_mass>>

\* everything a mesh-construction call does not touch
rest == <<wvars, collection, avars, lvars, dct, call, ret>>

vars == <<shape, vtab, vertices, edges, nxt, visited, cur, loops,
          external, internal, trivial, mesh, snap, pc, err, rest>>

----------------------------------------------------------------------------
(* Bounds of the model *)

\* longest vertex list of a custom polygon or open polyline
MaxVerts == 4
\* longest closed polyline of an edge list made of two closed polylines
MaxPart == 3
\* largest overall depth/width of a rectangular hollow section
MaxSize == 8
\* largest outside diameter / wall thickness of a circular hollow section
MaxOd == 3
\* largest point count of a circular hollow section
MaxNPts == 5
\* largest width/height of a plain rectangle
MaxRect == 10

\* common.EPSILON (1.00e-6), the unit of length of the hollow sections
EPSILON == 1

----------------------------------------------------------------------------
(* Sequences and points *)

Range(s) == {s[i] : i \in DOMAIN s}

Reverse(s) == [i \in 1..Len(s) |-> s[Len(s) + 1 - i]]

Abs(x) == IF x < 0 THEN -x ELSE x

Min(S) == CHOOSE x \in S : \A y \in S : x <= y

Max(S) == CHOOSE x \in S : \A y \in S : x >= y

Injective(n, S) == {s \in [1..n -> S] : \A i, j \in 1..n : i # j => s[i] # s[j]}

\* the points a caller's custom polygon or edge list may use
GridPoints ==
    << <<-5, -2>>, <<0, -2>>, <<5, -2>>, <<5, 2>>, <<0, 2>>, <<-5, 2>> >>

GridIds == DOMAIN GridPoints

----------------------------------------------------------------------------
(* mesh_shapes.py: the vertex lists of the section generators *)

\* x / 2. for the even x the model uses
Half(x) == x \div 2

\* rect_mesh, lines 197-202
rect_vertices(b, h) ==
    << <<Half(b), Half(h)>>, <<-Half(b), Half(h)>>,
       <<-Half(b), -Half(h)>>, <<Half(b), -Half(h)>> >>

\* as HSS_rect_vertices, without the seam offset
HSS_rect_vertices_no_seam(ht, b, t) ==
    LET a == Half(b)
        c == Half(ht)
        u == a - t
        v == c - t
        e == 0
    IN  << <<e, -c>>, <<a, -c>>, <<a, c>>, <<-a, c>>, <<-a, -c>>, <<-e, -c>>,
           <<-e, -v>>, <<-u, -v>>, <<-u, v>>, <<u, v>>, <<u, -v>>, <<e, -v>> >>

\* HSS_rect_mesh, lines 134-152
HSS_rect_vertices(ht, b, t) ==
    LET a == Half(b)
        c == Half(ht)
        u == a - t
        v == c - t
        e == EPSILON
    IN  << <<e, -c>>, <<a, -c>>, <<a, c>>, <<-a, c>>, <<-a, -c>>, <<-e, -c>>,
           <<-e, -v>>, <<-u, -v>>, <<-u, v>>, <<u, v>>, <<u, -v>>, <<e, -v>> >>

\* sin and cos of q quarter turns
Sin4(q) == << 0, 1, 0, -1 >>[(q % 4) + 1]

Cos4(q) == << 1, 0, -1, 0 >>[(q % 4) + 1]

\* the point counts n for which np.linspace(0., 2.*np.pi, n) holds only
\* multiples of a quarter turn: its step is 2 pi / (n - 1)
QuarterCounts == {n \in 2..MaxNPts : 4 % (n - 1) = 0}

\* HSS_circ_mesh, lines 170-172: np.column_stack((np.sin(t), -np.cos(t)))
pts_normalized(n_pts) ==
    [k \in 1..n_pts |->
        LET q == (k - 1) * (4 \div (n_pts - 1))
        IN  <<Sin4(q), -Cos4(q)>>]

\* pts * f
Scaled(pts, f) == [k \in DOMAIN pts |-> <<pts[k][1] * f, pts[k][2] * f>>]

\* pts[k, 0] += d
AddZ(pts, k, d) == [pts EXCEPT ![k] = <<@[1] + d, @[2]>>]

\* HSS_circ_mesh, lines 173-175
pts_outer(od, n_pts) ==
    AddZ(AddZ(Scaled(pts_normalized(n_pts), od), 1, EPSILON), n_pts, -EPSILON)

\* HSS_circ_mesh, lines 176-178
pts_inner(od, tdes, n_pts) ==
    AddZ(AddZ(Reverse(Scaled(pts_normalized(n_pts), od - tdes)), 1, -EPSILON),
         n_pts, EPSILON)

\* HSS_circ_mesh, lines 179-182
HSS_circ_vertices(od, tdes, n_pts) ==
    pts_outer(od, n_pts) \o pts_inner(od, tdes, n_pts)

\* as define_edges, without the edge from the last vertex to the first
define_edges_no_wrap(vs) == [i \in 1..(Len(vs) - 1) |-> <<vs[i], vs[i + 1]>>]

\* define_edges, lines 34-44: consecutive vertices, then last to first
define_edges(vs) ==
    [i \in 1..(Len(vs) - 1) |-> <<vs[i], vs[i + 1]>>]
        \o << <<vs[Len(vs)], vs[1]>> >>

\* an edge list that is no closed polyline: consecutive vertices only
open_polyline(vs) == [i \in 1..(Len(vs) - 1) |-> <<vs[i], vs[i + 1]>>]

----------------------------------------------------------------------------
(* The calls the model covers *)

EvenSizes(m) == {x \in 2..m : x % 2 = 0}

Idle(sh, vt, vs, es, at) ==
    /\ shape = sh
    /\ vtab = vt
    /\ vertices = vs
    /\ edges = es
    /\ nxt = <<>>
    /\ visited = {}
    /\ cur = <<>>
    /\ loops = <<>>
    /\ external = <<>>
    /\ internal = <<>>
    /\ trivial = <<>>
    /\ mesh = <<>>
    /\ snap = <<>>
    /\ pc = at
    /\ err = ""

Ids(vt) == [i \in DOMAIN vt |-> i]

\* rect_mesh(b, h)
InitRect ==
    \E b \in EvenSizes(MaxRect), h \in EvenSizes(MaxRect) :
        Idle(<<"rect_mesh", b, h, 0>>, rect_vertices(b, h),
             Ids(rect_vertices(b, h)), <<>>, "define_edges")

\* HSS_rect_mesh(ht, b, t)
InitHSSRect ==
    \E ht \in EvenSizes(MaxSize), b \in EvenSizes(MaxSize), t \in 1..Half(MaxSize) :
        Idle(<<"HSS_rect_mesh", ht, b, t>>, HSS_rect_vertices(ht, b, t),
             Ids(HSS_rect_vertices(ht, b, t)), <<>>, "define_edges")

\* HSS_circ_mesh(od, tdes, n_pts)
InitHSSCirc ==
    \E od \in 1..MaxOd, tdes \in 1..MaxOd, n_pts \in QuarterCounts :
        Idle(<<"HSS_circ_mesh", od, tdes, n_pts>>, HSS_circ_vertices(od, tdes, n_pts),
             Ids(HSS_circ_vertices(od, tdes, n_pts)), <<>>, "define_edges")

\* a caller's polygon: define_edges on a list of distinct grid vertices
InitPolygon ==
    \E n \in 1..MaxVerts : \E vs \in Injective(n, GridIds) :
        Idle(<<"polygon", n, 0, 0>>, GridPoints, vs, <<>>, "define_edges")

\* a caller's edge list of two closed polylines without a common vertex
InitTwoLoops ==
    \E n \in 2..MaxPart, m \in 2..MaxPart :
        \E p \in Injective(n, GridIds), q \in Injective(m, GridIds) :
            /\ Range(p) \cap Range(q) = {}
            /\ Idle(<<"two_loops", n, m, 0>>, GridPoints, <<>>,
                    define_edges(p) \o define_edges(q), "define_halfedges")

\* a caller's edge list that is an open polyline (its ends are dangling)
InitOpen ==
    \E n \in 2..MaxVerts : \E vs \in Injective(n, GridIds) :
        Idle(<<"open", n, 0, 0>>, GridPoints, <<>>, open_polyline(vs),
             "define_halfedges")

\* no w_mesh call is under way
NoWMesh ==
    /\ w_args = <<>>
    /\ area_diff = 0
    /\ r_fillet = 0

\* no Collection is in use
NoCollection == collection = <<>>

\* no ComponentAssemblyCollection is in use
NoAssemblies ==
    /\ assemblies = <<>>
    /\ connectivity_map = <<>>

\* no load is in use
NoLoads ==
    /\ point_load = <<>>
    /\ point_mass = <<>>

\* no ordered dict is in use
NoDct == dct = <<>>

\* no call has been made yet
NoCall ==
    /\ call = <<>>
    /\ ret = <<>>

\* no mesh-construction call is under way; the call at hand starts at `at`
NoMesh(at) == Idle(<<"none", 0, 0, 0>>, <<>>, <<>>, <<>>, at)

Init ==
    /\ \/ InitRect
       \/ InitHSSRect
       \/ InitHSSCirc
       \/ InitPolygon
       \/ InitTwoLoops
       \/ InitOpen
    /\ NoWMesh
    /\ NoCollection
    /\ NoAssemblies
    /\ NoLoads
    /\ NoDct
    /\ NoCall

----------------------------------------------------------------------------
(* osmg.mesh, modelled from the specification: half-edges (3, 4.1) *)

\* Edge k owns the half-edges 2k-1 (leaving v_i) and 2k (leaving v_j)
Halfedges(es) == 1..(2 * Len(es))

EdgeOf(h) == (h + 1) \div 2

Twin(h) == IF h % 2 = 1 THEN h + 1 ELSE h - 1

Origin(es, h) == IF h % 2 = 1 THEN es[EdgeOf(h)][1] ELSE es[EdgeOf(h)][2]

Dest(es, h) == Origin(es, Twin(h))

Outgoing(es, v) == {h \in Halfedges(es) : Origin(es, h) = v}

\* the number of edge ends at v
Degree(es, v) == Cardinality(Outgoing(es, v))

EdgeVertices(es) == UNION {{es[k][1], es[k][2]} : k \in DOMAIN es}

\* as Malformed, looking only for vertices without any edge end
MalformedIsolatedOnly(es) ==
    \E v \in EdgeVertices(es) : Degree(es, v) < 1

\* 4.1, failure: a vertex of degree 0 or 1, or of odd connectivity
Malformed(es) ==
    \E v \in EdgeVertices(es) : Degree(es, v) < 2 \/ Degree(es, v) % 2 = 1

\* as next_of, without setting the twin aside
next_of_any(es, h) == Min(Outgoing(es, Dest(es, h)))

\* 4.1: the next of a half-edge arriving at a vertex is the half-edge leaving
\* it that is not its twin.  Every vertex of the calls modelled here has at
\* most two edge ends, so there is one candidate and the angular order among
\* several never decides; a half-edge that arrives at a dead end has only its
\* twin to continue with.
next_of(es, h) ==
    LET cand == Outgoing(es, Dest(es, h)) \ {Twin(h)}
    IN  IF cand = {} THEN Twin(h) ELSE Min(cand)

\* 4.1, contract: every half-edge with its next resolved
define_halfedges(es) == [h \in Halfedges(es) |-> next_of(es, h)]

----------------------------------------------------------------------------
(* osmg.mesh, modelled from the specification: loops (3, 4.2, 4.3, 4.4) *)

\* the vertex sequence of a loop: the origins of its half-edges
LoopVertices(es, vt, l) == [k \in DOMAIN l |-> vt[Origin(es, l[k])]]

RECURSIVE ShoelaceFrom(_, _)
ShoelaceFrom(pts, k) ==
    IF k > Len(pts) THEN 0
    ELSE LET p == pts[k]
             q == pts[(k % Len(pts)) + 1]
         IN  (p[1] * q[2] - q[1] * p[2]) + ShoelaceFrom(pts, k + 1)

\* twice the signed area of the polygon pts (shoelace formula): positive for
\* a counterclockwise polygon
Area2(pts) == ShoelaceFrom(pts, 1)

LoopArea2(es, vt, l) == Area2(LoopVertices(es, vt, l))

\* 4.3: the threshold below which twice the |area| of a loop counts as none;
\* on integer coordinates, the smallest area there is
AreaTol == 1

\* 4.3 and 3: <<external, internal, trivial>>, each in tracing order
orient_loops(es, vt, ls) ==
    LET IsExternal(l) == LoopArea2(es, vt, l) >= AreaTol
        IsInternal(l) == LoopArea2(es, vt, l) <= -AreaTol
        IsTrivial(l) == Abs(LoopArea2(es, vt, l)) < AreaTol
    IN  <<SelectSeq(ls, IsExternal), SelectSeq(ls, IsInternal),
          SelectSeq(ls, IsTrivial)>>

\* as Ambiguous, rejecting only the lack of an external loop
AmbiguousWhenNone(ext) == Len(ext) = 0

\* 4.3, last clause: exactly one external loop must result
Ambiguous(ext) == Len(ext) # 1

\* 4.4 for the arguments generate passes: the checker is handed the list the
\* Mesh is then built from, and accepts it when it holds exactly one loop
\* (4.4 (a)); it never sees the external loops or the half-edges.
sanity_violation(int, triv) == Len(int) # 1

\* 3, Mesh: the bounding box, [[z_min, y_min], [z_max, y_max]] flattened
bounding_box(m) ==
    << Min({m[k][1] : k \in DOMAIN m}), Min({m[k][2] : k \in DOMAIN m}),
       Max({m[k][1] : k \in DOMAIN m}), Max({m[k][2] : k \in DOMAIN m}) >>

----------------------------------------------------------------------------
(* mesh_shapes.py: generic_snap_points, lines 207-224 *)

Neg(p) == <<-p[1], -p[2]>>

\* as generic_snap_points, with the right corners taken at z_min
generic_snap_points_left(m) ==
    LET bbox == bounding_box(m)
        z_min == bbox[1]
        y_min == bbox[2]
        z_max == bbox[3]
        y_max == bbox[4]
    IN  [centroid      |-> Neg(<<0, 0>>),
         top_center    |-> Neg(<<0, y_max>>),
         top_left      |-> Neg(<<z_min, y_max>>),
         top_right     |-> Neg(<<z_min, y_max>>),
         center_left   |-> Neg(<<z_min, 0>>),
         center_right  |-> Neg(<<z_max, 0>>),
         bottom_center |-> Neg(<<0, y_min>>),
         bottom_left   |-> Neg(<<z_min, y_min>>),
         bottom_right  |-> Neg(<<z_min, y_min>>)]

generic_snap_points(m) ==
    LET bbox == bounding_box(m)
        z_min == bbox[1]
        y_min == bbox[2]
        z_max == bbox[3]
        y_max == bbox[4]
    IN  [centroid      |-> Neg(<<0, 0>>),
         top_center    |-> Neg(<<0, y_max>>),
         top_left      |-> Neg(<<z_min, y_max>>),
         top_right     |-> Neg(<<z_max, y_max>>),
         center_left   |-> Neg(<<z_min, 0>>),
         center_right  |-> Neg(<<z_max, 0>>),
         bottom_center |-> Neg(<<0, y_min>>),
         bottom_left   |-> Neg(<<z_min, y_min>>),
         bottom_right  |-> Neg(<<z_max, y_min>>)]

----------------------------------------------------------------------------
(* The steps of one call *)

\* edges = define_edges(vertices): lines 153, 183, 203, or the caller's
DefineEdges ==
    /\ pc = "define_edges"
    /\ edges' = define_edges(vertices)
    /\ pc' = "define_halfedges"
    /\ UNCHANGED <<shape, vtab, vertices, nxt, visited, cur, loops,
                   external, internal, trivial, mesh, snap, err>>
    /\ UNCHANGED rest

\* generate, line 27: halfedges = define_halfedges(edges)
DefineHalfedges ==
    /\ pc = "define_halfedges"
    /\ IF Malformed(edges)
       THEN /\ pc' = "error"
            /\ err' = "malformed_topology"
            /\ nxt' = nxt
       ELSE /\ pc' = "obtain_closed_loops"
            /\ err' = err
            /\ nxt' = define_halfedges(edges)
    /\ UNCHANGED <<shape, vtab, vertices, edges, visited, cur, loops,
                   external, internal, trivial, mesh, snap>>
    /\ UNCHANGED rest

\* 4.2: the walk is back at its start
closed(nx, walk) == nx[walk[Len(walk)]] = walk[1]

\* 4.2: the half-edge a new walk starts from, in the stable order
first_unvisited(hs, seen) == Min(hs \ seen)

\* as marked, forgetting the half-edge
marked_nothing(seen, h) == seen

\* 4.2, side effect: the half-edge a walk passes is marked visited
marked(seen, h) == seen \cup {h}

\* generate, line 28, obtain_closed_loops: start a walk
TraceStart ==
    /\ pc = "obtain_closed_loops"
    /\ cur = <<>>
    /\ Halfedges(edges) \ visited # {}
    /\ LET h == first_unvisited(Halfedges(edges), visited)
       IN  /\ cur' = <<h>>
           /\ visited' = visited \cup {h}
    /\ UNCHANGED <<shape, vtab, vertices, edges, nxt, loops,
                   external, internal, trivial, mesh, snap, pc, err>>
    /\ UNCHANGED rest

\* obtain_closed_loops: follow next.  A walk longer than the number of
\* half-edges would go on for ever; the model lets it go no further.
TraceStep ==
    /\ pc = "obtain_closed_loops"
    /\ cur # <<>>
    /\ ~closed(nxt, cur)
    /\ Len(cur) < 2 * Len(edges)
    /\ LET h == nxt[cur[Len(cur)]]
       IN  /\ cur' = Append(cur, h)
           /\ visited' = marked(visited, h)
    /\ UNCHANGED <<shape, vtab, vertices, edges, nxt, loops,
                   external, internal, trivial, mesh, snap, pc, err>>
    /\ UNCHANGED rest

\* obtain_closed_loops: the walk returned to its start, the loop is complete
TraceClose ==
    /\ pc = "obtain_closed_loops"
    /\ cur # <<>>
    /\ closed(nxt, cur)
    /\ loops' = Append(loops, cur)
    /\ cur' = <<>>
    /\ UNCHANGED <<shape, vtab, vertices, edges, nxt, visited,
                   external, internal, trivial, mesh, snap, pc, err>>
    /\ UNCHANGED rest

\* obtain_closed_loops: no half-edge is left, return the loops
TraceDone ==
    /\ pc = "obtain_closed_loops"
    /\ cur = <<>>
    /\ Halfedges(edges) \ visited = {}
    /\ pc' = "orient_loops"
    /\ UNCHANGED <<shape, vtab, vertices, edges, nxt, visited, cur, loops,
                   external, internal, trivial, mesh, snap, err>>
    /\ UNCHANGED rest

\* generate, line 29: external, internal, trivial = orient_loops(loops)
OrientLoops ==
    /\ pc = "orient_loops"
    /\ LET res == orient_loops(edges, vtab, loops)
       IN  /\ external' = res[1]
           /\ internal' = res[2]
           /\ trivial' = res[3]
           /\ IF Ambiguous(res[1])
              THEN pc' = "error" /\ err' = "loop_classification"
              ELSE pc' = "sanity_checks" /\ err' = err
    /\ UNCHANGED <<shape, vtab, vertices, edges, nxt, visited, cur, loops,
                   mesh, snap>>
    /\ UNCHANGED rest

\* generate, line 30: sanity_checks(internal, trivial)
SanityChecks ==
    /\ pc = "sanity_checks"
    /\ IF sanity_violation(internal, trivial)
       THEN pc' = "error" /\ err' = "sanity"
       ELSE pc' = "mesh" /\ err' = err
    /\ UNCHANGED <<shape, vtab, vertices, edges, nxt, visited, cur, loops,
                   external, internal, trivial, mesh, snap>>
    /\ UNCHANGED rest

\* generate, line 31: the loop the Mesh is built from
mesh_loop(ext, int, triv) == int

\* generate, line 31: return Mesh(internal[0])
BuildMesh ==
    /\ pc = "mesh"
    /\ LET from == mesh_loop(external, internal, trivial)
       IN  IF from = <<>>
           THEN pc' = "error" /\ err' = "IndexError" /\ mesh' = mesh
           ELSE /\ pc' = "done"
                /\ err' = err
                /\ mesh' = LoopVertices(edges, vtab, from[1])
    /\ UNCHANGED <<shape, vtab, vertices, edges, nxt, visited, cur, loops,
                   external, internal, trivial, snap>>
    /\ UNCHANGED rest

\* generic_snap_points(mesh) on the Mesh the call returned
GenericSnapPoints ==
    /\ pc = "done"
    /\ snap' = generic_snap_points(mesh)
    /\ pc' = "snapped"
    /\ UNCHANGED <<shape, vtab, vertices, edges, nxt, visited, cur, loops,
                   external, internal, trivial, mesh, err>>
    /\ UNCHANGED rest

Next ==
    \/ DefineEdges
    \/ DefineHalfedges
    \/ TraceStart
    \/ TraceStep
    \/ TraceClose
    \/ TraceDone
    \/ OrientLoops
    \/ SanityChecks
    \/ BuildMesh
    \/ GenericSnapPoints

Spec == Init /\ [][Next]_vars

\* one call runs on its own, to its end: every step that can be taken is taken
FairSpec == Spec /\ WF_vars(Next)

----------------------------------------------------------------------------
(* w_mesh, lines 47-72: the fillet radius of a wide-flange section *)
(*                                                                         *)
(* Numbers.  b, h, tw, tf are integers in units of 0.01, so that areas are *)
(* integers in units of 1e-4 and the fallback 1e-4 is 1; target_area is    *)
(* None or <<area>>.  r is kept in                                         *)
(* units of 1e-4: r = sqrt(area_diff / (2**2 - pi)) * 0.9565 is the square *)
(* root of area_diff * 0.9565**2 / (4 - pi) * 1e4 = area_diff * 10658,     *)
(* rounded down.  A float is a record: nan, or a value.                    *)

\* largest b, h, tw, tf of a wide-flange section
MaxWDim == 3
\* largest target_area of a wide-flange section
MaxWArea == 16

\* Python's None, among values that are tuples
None == <<>>

\* a number where None may stand as well
Some(v) == <<v>>

Float(v) == [nan |-> FALSE, val |-> v]
NaN == [nan |-> TRUE, val |-> 0]

\* the largest k in lo..hi with k * k <= x, for lo * lo <= x
RECURSIVE IsqrtIn(_, _, _)
IsqrtIn(x, lo, hi) ==
    IF lo = hi
    THEN lo
    ELSE LET mid == (lo + hi + 1) \div 2
         IN  IF mid * mid <= x
             THEN IsqrtIn(x, mid, hi)
             ELSE IsqrtIn(x, lo, mid - 1)

\* np.sqrt of a float: nan for a negative number
np_sqrt(x) == IF x < 0 THEN NaN ELSE Float(IsqrtIn(x, 0, Min({x, 46340})))

\* line 63, the bracket: the area of the three rectangles
nominal_area(b, h, tw, tf) == b * tf * 2 + (h - 2 * tf) * tw

\* line 66: the area difference that stands in for a negative one
AreaFallback == 1

\* line 68: 0.9565**2 / (2**2 - pi), times 1e4
RadiusFactor == 10658

\* as w_area_diff, keeping a negative difference
w_area_diff_kept(ad) == ad

\* lines 64-66: if area_diff < 0: area_diff = 1e-4
w_area_diff(ad) == IF ad < 0 THEN AreaFallback ELSE ad

\* line 68: r = np.sqrt(area_diff/(2.**2-np.pi)) * 0.9565
w_radius(ad) == np_sqrt(ad * RadiusFactor)

WDims == 1..MaxWDim

WInit ==
    /\ NoMesh("w_mesh")
    /\ w_args \in WDims \X WDims \X WDims \X WDims \X ({None} \cup {Some(a) : a \in 0..MaxWArea})
    /\ area_diff = 0
    /\ r_fillet = NaN
    /\ NoCollection
    /\ NoAssemblies
    /\ NoLoads
    /\ NoDct
    /\ NoCall

\* everything a w_mesh call does not touch
not_w == <<meshdata, collection, avars, lvars, dct, call, ret>>

\* line 63: area_diff = target_area - (...); None - float is a TypeError
WAreaDiff ==
    /\ pc = "w_mesh"
    /\ IF w_args[5] = None
       THEN /\ pc' = "error"
            /\ err' = "TypeError"
            /\ area_diff' = area_diff
       ELSE /\ pc' = "w_area_diff"
            /\ err' = err
            /\ area_diff' = w_args[5][1]
                    - nominal_area(w_args[1], w_args[2], w_args[3], w_args[4])
    /\ UNCHANGED <<w_args, r_fillet, not_w>>

\* lines 64-66
WFallback ==
    /\ pc = "w_area_diff"
    /\ area_diff' = w_area_diff(area_diff)
    /\ pc' = "w_radius"
    /\ UNCHANGED <<w_args, r_fillet, err, not_w>>

\* line 68
WRadius ==
    /\ pc = "w_radius"
    /\ r_fillet' = w_radius(area_diff)
    /\ pc' = "w_vertices"
    /\ UNCHANGED <<w_args, area_diff, err, not_w>>

WNext ==
    \/ WAreaDiff
    \/ WFallback
    \/ WRadius

WSpec == WInit /\ [][WNext]_vars

----------------------------------------------------------------------------
(* osmg_collections.py: Collection, lines 28-50 *)
(*                                                                         *)
(* An object is <<uid, tag>>: the tag tells apart two objects that have    *)
(* the same uid.  None stands for an object that has no uid.  A Collection *)
(* is the dict it is, a function from its keys.                            *)

\* largest uid of an object
MaxUid == 3
\* number of objects that share a uid
MaxTag == 2

Uids == 1..MaxUid

Objects == Uids \X (1..MaxTag)

uid_of(obj) == obj[1]

\* self[key] = obj on a dict
dict_set(d, key, obj) == [k \in DOMAIN d \cup {key} |-> IF k = key THEN obj ELSE d[k]]

\* as Collection_add, without the check for the uid
Collection_add_unchecked(c, obj) ==
    IF obj = None
    THEN <<c, "AssertionError">>
    ELSE <<dict_set(c, uid_of(obj), obj), "">>

\* Collection.add, lines 33-50: the collection afterwards, and what was raised
Collection_add(c, obj) ==
    IF obj = None
    THEN <<c, "AssertionError">>
    ELSE IF uid_of(obj) \in DOMAIN c
         THEN <<c, "ValueError">>
         ELSE <<dict_set(c, uid_of(obj), obj), "">>

CollectionInit ==
    /\ NoMesh("collection")
    /\ collection = <<>>
    /\ NoWMesh
    /\ NoAssemblies
    /\ NoLoads
    /\ NoDct
    /\ NoCall

\* collection.add(obj)
CollectionAdd ==
    \E obj \in Objects \cup {None} :
        LET res == Collection_add(collection, obj)
        IN  /\ collection' = res[1]
            /\ err' = res[2]
            /\ call' = <<"add", obj>>
            /\ UNCHANGED <<meshdata, pc, wvars, avars, lvars, dct, ret>>

CollectionNext == CollectionAdd

CollectionSpec == CollectionInit /\ [][CollectionNext]_vars

----------------------------------------------------------------------------
(* osmg_collections.py: ComponentAssemblyCollection, lines 348-440 *)
(*                                                                         *)
(* A ComponentAssembly is <<uid, external_nodes>>, its external_nodes the  *)
(* set of the uids its NodeCollection holds.  A list of nodes is the       *)
(* sequence of their uids, and a tuple of uids is a sequence too.          *)

\* largest uid of a component assembly
MaxAssemblyUid == 2
\* largest uid of a node
MaxNodeUid == 2
\* longest list of nodes handed to a search
MaxNodes == 2

NodeUids == 1..MaxNodeUid

ComponentAssemblies == (1..MaxAssemblyUid) \X (SUBSET NodeUids)

external_nodes(obj) == obj[2]

\* the lists of nodes a search is called with (a node may be listed twice)
NodeLists == UNION {[1..n -> NodeUids] : n \in 0..MaxNodes}

\* seq without its i-th element
Without(seq, i) == SubSeq(seq, 1, i - 1) \o SubSeq(seq, i + 1, Len(seq))

\* tuple(sorted(seq)): the same uids, as often as in seq, in ascending order
RECURSIVE sorted(_)
sorted(seq) ==
    IF seq = <<>>
    THEN <<>>
    ELSE LET i == CHOOSE j \in DOMAIN seq : seq[j] = Min(Range(seq))
         IN  <<seq[i]>> \o sorted(Without(seq, i))

\* the values of a dict whose keys are S, in the order they were entered
\* (any order: it is sorted away)
RECURSIVE values(_)
values(S) ==
    IF S = {}
    THEN <<>>
    ELSE LET x == CHOOSE y \in S : TRUE
         IN  <<x>> \o values(S \ {x})

\* line 383: [node.uid for node in obj.external_nodes.values()]
external_uids(obj) == values(external_nodes(obj))

\* ComponentAssemblyCollection.add, lines 362-399: the collection and the
\* connectivity_map afterwards, and what was raised
ComponentAssemblyCollection_add(a, cm, obj) ==
    LET added == Collection_add(a, obj)
    IN  IF added[2] # ""
        THEN <<a, cm, added[2]>>
        ELSE IF external_nodes(obj) = {} \/ external_uids(obj) = <<>>
             THEN <<added[1], cm, "ValueError">>
             ELSE LET sorted_uids == sorted(external_uids(obj))
                  IN  IF sorted_uids \in DOMAIN cm
                      THEN <<added[1], cm, "ValueError">>
                      ELSE <<added[1],
                             dict_set(cm, sorted_uids, uid_of(obj)), "">>

\* as search_by_nodes, looking the uids up in the order given
search_by_nodes_unsorted(a, cm, nodes) ==
    IF nodes \in DOMAIN cm THEN a[cm[nodes]] ELSE None

\* search_by_nodes, lines 401-419
search_by_nodes(a, cm, nodes) ==
    LET node_uids == sorted(nodes)
    IN  IF node_uids \in DOMAIN cm THEN a[cm[node_uids]] ELSE None

AssembliesInit ==
    /\ NoMesh("assemblies")
    /\ assemblies = <<>>
    /\ connectivity_map = <<>>
    /\ NoWMesh
    /\ NoCollection
    /\ NoLoads
    /\ NoDct
    /\ NoCall

\* everything a ComponentAssemblyCollection does not touch
not_a == <<meshdata, wvars, collection, lvars, dct>>

\* assemblies.add(obj).  A search changes nothing, so that the adds after
\* it find what the adds before it find: a behaviour is a sequence of adds
\* and the search that follows them.
AssemblyAdd ==
    /\ pc = "assemblies"
    /\ \E obj \in ComponentAssemblies :
        LET res == ComponentAssemblyCollection_add(assemblies, connectivity_map, obj)
        IN  /\ assemblies' = res[1]
            /\ connectivity_map' = res[2]
            /\ err' = res[3]
            /\ call' = <<"add", obj>>
            /\ UNCHANGED <<pc, ret, not_a>>

\* assemblies.search_by_nodes(nodes)
SearchByNodes ==
    /\ pc = "assemblies"
    /\ \E nodes \in NodeLists :
        /\ ret' = search_by_nodes(assemblies, connectivity_map, nodes)
        /\ err' = ""
        /\ call' = <<"search_by_nodes", nodes>>
        /\ pc' = "searched"
        /\ UNCHANGED <<avars, not_a>>

\* assemblies.search_by_nodes_or_raise(nodes), lines 421-440
SearchByNodesOrRaise ==
    /\ pc = "assemblies"
    /\ \E nodes \in NodeLists :
        LET component == search_by_nodes(assemblies, connectivity_map, nodes)
        IN  /\ ret' = component
            /\ err' = IF component = None THEN "ValueError" ELSE ""
            /\ call' = <<"search_by_nodes_or_raise", nodes>>
            /\ pc' = "searched"
            /\ UNCHANGED <<avars, not_a>>

AssembliesNext ==
    \/ AssemblyAdd
    \/ SearchByNodes
    \/ SearchByNodesOrRaise

AssembliesSpec == AssembliesInit /\ [][AssembliesNext]_vars

----------------------------------------------------------------------------
(* load_case.py: PointLoad and PointMass, lines 32-92 *)
(*                                                                         *)
(* A load or a mass is a list of numbers, here of integers.  An object is  *)
(* the record of its fields; the kinds a caller names are the fields of    *)
(* the two classes, among them 'other', the default of both add methods.   *)

\* largest component of a load or mass handed to add
MaxMass == 1
\* the adds to a PointLoad stop when its components sum up to this
MaxLoadTotal == 2

\* len(self.other), len(self.mself): lines 44-45, 76-77
Dofs == 6

Zeros == [i \in 1..Dofs |-> 0]

\* the lists handed to add: one component set, or a list that is too short
Lists ==
    {[i \in 1..Dofs |-> IF i = j THEN m ELSE 0] : j \in 1..Dofs, m \in 1..MaxMass}
        \cup {<<1, 1, 1>>}

Kinds == {"other", "floor", "mself"}

\* [c + o for c, o in zip(current, load)]
zip_add(current, load) ==
    [i \in 1..Min({Len(current), Len(load)}) |-> current[i] + load[i]]

RECURSIVE SumFrom(_, _)
SumFrom(v, i) == IF i > Len(v) THEN 0 ELSE v[i] + SumFrom(v, i + 1)

\* hasattr(self, kind), for the kinds modelled
hasattr(self, kind) == kind \in DOMAIN self

\* PointLoad.add, lines 47-55: the object afterwards, and what was raised
PointLoad_add(self, load, kind) ==
    IF ~hasattr(self, kind) \/ Len(load) # Len(self.other)
    THEN <<self, "AssertionError">>
    ELSE LET current == self[kind]
             new == zip_add(current, load)
         IN  <<[self EXCEPT ![kind] = new], "">>

\* PointLoad.total, lines 57-61
PointLoad_total(self) == zip_add(self.other, self.floor)

\* PointMass.add, lines 79-86: `current` is rebound to the new list, and
\* the object keeps the old one
PointMass_add(self, mass, kind) ==
    IF ~hasattr(self, kind) \/ Len(mass) # Len(self.mself)
    THEN <<self, "AssertionError">>
    ELSE LET current == self[kind]
             rebound == zip_add(current, mass)
         IN  <<self, "">>

\* PointMass.total, lines 88-92
PointMass_total(self) == zip_add(self.mself, self.floor)

LoadsInit ==
    /\ NoMesh("loads")
    /\ point_load = [other |-> Zeros, floor |-> Zeros]
    /\ point_mass = [mself |-> Zeros, floor |-> Zeros]
    /\ NoWMesh
    /\ NoCollection
    /\ NoAssemblies
    /\ NoDct
    /\ NoCall

\* everything a load does not touch
not_l == <<meshdata, pc, wvars, collection, avars, dct, ret>>

\* point_load.add(load, kind)
PointLoadAdd ==
    /\ SumFrom(PointLoad_total(point_load), 1) < MaxLoadTotal
    /\ \E load \in Lists, kind \in Kinds :
        LET res == PointLoad_add(point_load, load, kind)
        IN  /\ point_load' = res[1]
            /\ err' = res[2]
            /\ call' = <<"PointLoad.add", load, kind>>
            /\ UNCHANGED <<point_mass, not_l>>

\* point_mass.add(mass, kind)
PointMassAdd ==
    \E mass \in Lists, kind \in Kinds :
        LET res == PointMass_add(point_mass, mass, kind)
        IN  /\ point_mass' = res[1]
            /\ err' = res[2]
            /\ call' = <<"PointMass.add", mass, kind>>
            /\ UNCHANGED <<point_load, not_l>>

LoadsNext ==
    \/ PointLoadAdd
    \/ PointMassAdd

LoadsSpec == LoadsInit /\ [][LoadsNext]_vars

----------------------------------------------------------------------------
(* osmg.core.common.previous_element *)
(*                                                                         *)
(* The function is not part of the sources at hand; tests/core/            *)
(* test_common.py, lines 92-119, calls it.  It is modelled as the look-up  *)
(* these tests describe: the position of the key among the keys, and the   *)
(* value one position before it.  An ordered dict is the sequence of its   *)
(* <<key, value>> items in insertion order, the keys distinct; a value     *)
(* returned is <<value>>, None is <<>>.                                    *)

\* largest key of an ordered dict
MaxKey == 4
\* most items of an ordered dict
MaxItems == 3

Keys == 1..MaxKey

Values == {"a", "b", "c"}

\* list(dct.keys())
key_list(d) == [i \in DOMAIN d |-> d[i][1]]

\* the ordered dicts modelled
OrderedDicts ==
    UNION {{d \in [1..n -> Keys \X Values] :
                \A i, j \in 1..n : i # j => d[i][1] # d[j][1]} : n \in 0..MaxItems}

\* the ordered dict of the tests, lines 101 and 115
TestDct == << <<1, "a">>, <<2, "b">>, <<3, "c">> >>

\* dct[key], for a key of dct
getitem(d, key) == d[CHOOSE i \in DOMAIN d : d[i][1] = key][2]

\* as previous_element, taking the key before `key` in the order of the
\* integers
previous_element_by_key(d, key) ==
    IF key \in Range(key_list(d)) /\ (key - 1) \in Range(key_list(d))
    THEN Some(getitem(d, key - 1))
    ELSE None

\* previous_element(dct, key)
previous_element(d, key) ==
    IF key \in Range(key_list(d))
    THEN LET keys == key_list(d)
             idx == CHOOSE i \in DOMAIN keys : keys[i] = key
         IN  IF idx = 1 THEN None ELSE Some(getitem(d, keys[idx - 1]))
    ELSE None

PreviousInit ==
    /\ NoMesh("previous_element")
    /\ dct \in OrderedDicts
    /\ NoWMesh
    /\ NoCollection
    /\ NoAssemblies
    /\ NoLoads
    /\ NoCall

\* previous_element(dct, key)
PreviousElement ==
    \E key \in Keys :
        /\ ret' = previous_element(dct, key)
        /\ call' = <<"previous_element", key>>
        /\ UNCHANGED <<meshdata, pc, err, wvars, collection, avars, lvars, dct>>

PreviousNext == PreviousElement

PreviousSpec == PreviousInit /\ [][PreviousNext]_vars

----------------------------------------------------------------------------
(* What the claims speak of *)

Returned == pc \in {"done", "snapped"}

Ended == pc \in {"done", "snapped", "error"}

\* the loop tracer has returned
Traced ==
    /\ pc \notin {"define_edges", "define_halfedges", "obtain_closed_loops"}
    /\ err # "malformed_topology"

\* the loop classifier has run
Classified == Traced /\ pc # "orient_loops"

\* the traced loops that run counterclockwise around an area
CounterclockwiseLoops ==
    {i \in DOMAIN loops : LoopArea2(edges, vtab, loops[i]) > 0}

RECURSIVE SumLen(_)
SumLen(ls) == IF ls = <<>> THEN 0 ELSE Len(Head(ls)) + SumLen(Tail(ls))

\* the places of half-edge h in the traced loops
Places(h) == {<<i, k>> \in (DOMAIN loops) \X Halfedges(edges) :
                 k <= Len(loops[i]) /\ loops[i][k] = h}

AllDegreeTwo == \A v \in EdgeVertices(edges) : Degree(edges, v) = 2

Dangling == \E v \in EdgeVertices(edges) : Degree(edges, v) <= 1

Cross(o, a, b) == (a[1] - o[1]) * (b[2] - o[2]) - (a[2] - o[2]) * (b[1] - o[1])

Dot(o, a, b) == (a[1] - o[1]) * (b[1] - o[1]) + (a[2] - o[2]) * (b[2] - o[2])

\* r lies on the segment from p to q
OnSegment(p, q, r) == Cross(p, q, r) = 0 /\ Dot(r, p, q) <= 0

Sign(x) == IF x > 0 THEN 1 ELSE IF x < 0 THEN -1 ELSE 0

\* the segments p1-p2 and p3-p4 have a point in common
Meet(p1, p2, p3, p4) ==
    \/ /\ Sign(Cross(p1, p2, p3)) * Sign(Cross(p1, p2, p4)) < 0
       /\ Sign(Cross(p3, p4, p1)) * Sign(Cross(p3, p4, p2)) < 0
    \/ OnSegment(p1, p2, p3)
    \/ OnSegment(p1, p2, p4)
    \/ OnSegment(p3, p4, p1)
    \/ OnSegment(p3, p4, p2)

\* pts is the boundary of a simple polygon: at least three distinct points,
\* consecutive sides meet in their common end only, other sides not at all
IsSimple(pts) ==
    LET n == Len(pts)
        A(k) == pts[k]
        B(k) == pts[(k % n) + 1]
    IN  /\ n >= 3
        /\ \A i, j \in 1..n : i # j => pts[i] # pts[j]
        /\ \A i, j \in 1..n :
              i < j =>
                IF j = i + 1
                THEN ~(Cross(A(j), A(i), B(j)) = 0 /\ Dot(A(j), A(i), B(j)) > 0)
                ELSE IF i = 1 /\ j = n
                THEN ~(Cross(A(i), B(i), A(j)) = 0 /\ Dot(A(i), B(i), A(j)) > 0)
                ELSE ~Meet(A(i), B(i), A(j), B(j))

\* the points of the vertex list handed to define_edges
InputPoints == [k \in DOMAIN vertices |-> vtab[vertices[k]]]

SimplePolygonInput ==
    /\ shape[1] \in {"polygon", "rect_mesh"}
    /\ IsSimple(InputPoints)

\* the two closed polylines of a two_loops edge list, as point lists
PartOne == [k \in 1..shape[2] |-> vtab[edges[k][1]]]

PartTwo == [k \in 1..shape[3] |-> vtab[edges[shape[2] + k][1]]]

TwoPolygonsInput ==
    /\ shape[1] = "two_loops"
    /\ IsSimple(PartOne)
    /\ IsSimple(PartTwo)

----------------------------------------------------------------------------
(* The claims *)

\* C1: the Mesh generate returns is built from the single loop the
\* classifier returned as external.
C1_MeshFromExternal ==
    Returned =>
        /\ Len(external) = 1
        /\ mesh = LoopVertices(edges, vtab, external[1])

\* C2: generate returns a Mesh only when the classifier found exactly one
\* external (counterclockwise) loop; when it found none or several, as for
\* two disjoint closed polygons, the call ends with the loop-classification
\* (topology) error and without a Mesh.
C2_OneExternalOrError ==
    /\ Returned => Cardinality(CounterclockwiseLoops) = 1
    /\ (Classified /\ Cardinality(CounterclockwiseLoops) # 1) =>
          pc = "error" /\ err = "loop_classification" /\ mesh = <<>>
    /\ (TwoPolygonsInput /\ Ended) =>
          pc = "error" /\ err = "loop_classification" /\ mesh = <<>>

\* two disjoint polygons ended with the classification error, two loops of
\* theirs being counterclockwise
C2_Witness ==
    /\ TwoPolygonsInput
    /\ pc = "error"
    /\ err = "loop_classification"
    /\ Cardinality(CounterclockwiseLoops) = 2

\* C3: when every vertex has degree 2, the traced loops partition the
\* half-edges: their lengths sum to twice the number of edges and every
\* half-edge has exactly one place in them.
C3_Partition ==
    (Traced /\ AllDegreeTwo) =>
        /\ SumLen(loops) = 2 * Len(edges)
        /\ \A h \in Halfedges(edges) : Cardinality(Places(h)) = 1

\* the tracer returned several loops for an edge list of degree 2
C3_Witness ==
    /\ pc = "orient_loops"
    /\ AllDegreeTwo
    /\ Len(edges) >= 3
    /\ Len(loops) >= 2

\* C4: for a simple polygon, given clockwise or counterclockwise, generate
\* returns a Mesh whose vertex sequence is counterclockwise (signed area > 0)
\* and whose vertex set is that of the input (so the same for the reversed
\* input).
C4_Counterclockwise ==
    (SimplePolygonInput /\ Ended) =>
        /\ Returned
        /\ Area2(mesh) > 0
        /\ Range(mesh) = Range(InputPoints)

\* C5: an edge list with a vertex of degree 0 or 1 ends with the
\* malformed-topology error: no later step runs, no Mesh is returned, no
\* other error is raised.
C5_DanglingIsMalformed ==
    (edges # <<>> /\ Dangling) =>
        /\ pc \in {"define_halfedges", "error"}
        /\ pc = "error" => err = "malformed_topology"
        /\ mesh = <<>>

\* a single edge ended with the malformed-topology error
C5_Witness ==
    /\ Len(edges) = 1
    /\ Dangling
    /\ pc = "error"
    /\ err = "malformed_topology"

\* C6: mesh construction terminates: every walk of the tracer comes back to
\* its start, and every call ends, with a Mesh or with an error.
C6_Terminates ==
    /\ <>(pc \in {"done", "error"})
    /\ (cur # <<>>) ~> (cur = <<>>)

\* a walk over a polygon's half-edges has come back to its start
C6_Witness ==
    /\ pc = "obtain_closed_loops"
    /\ cur = <<>>
    /\ Len(loops) = 1
    /\ Len(loops[1]) >= 3

\* C7: define_edges returns one edge per vertex, edge i joining vertex i to
\* vertex i+1 and the last edge the last vertex to the first; with three or
\* more (distinct) vertices every vertex is an end of exactly two edges.
C7_DefineEdges ==
    (vertices # <<>> /\ pc # "define_edges") =>
        LET n == Len(vertices)
        IN  /\ Len(edges) = n
            /\ \A i \in 1..n :
                  edges[i] = <<vertices[i], vertices[(i % n) + 1]>>
            /\ n >= 3 =>
                  \A v \in Range(vertices) :
                      Cardinality({k \in DOMAIN edges :
                                      v \in {edges[k][1], edges[k][2]}}) = 2

\* define_edges has joined the four vertices of a caller's polygon
C7_Witness ==
    /\ shape[1] = "polygon"
    /\ Len(vertices) = 4
    /\ pc = "define_halfedges"

\* an edge whose two ends are at the same point
ZeroLengthEdge ==
    \E k \in DOMAIN edges : vtab[edges[k][1]] = vtab[edges[k][2]]

\* two edges joining the same pair of points
DuplicateEdge ==
    \E k, l \in DOMAIN edges :
        /\ k # l
        /\ {vtab[edges[k][1]], vtab[edges[k][2]]}
              = {vtab[edges[l][1]], vtab[edges[l][2]]}

\* HSS_rect_mesh(ht, b, t) with 0 < t < ht/2 and t + EPSILON < b/2
HSSRectInput ==
    /\ shape[1] = "HSS_rect_mesh"
    /\ 0 < shape[4]
    /\ 2 * shape[4] < shape[2]
    /\ 2 * (shape[4] + EPSILON) < shape[3]

\* HSS_circ_mesh(od, tdes, n_pts) with 0 < tdes < od and n_pts >= 3
HSSCircInput ==
    /\ shape[1] = "HSS_circ_mesh"
    /\ 0 < shape[3]
    /\ shape[3] < shape[2]
    /\ shape[4] >= 3

\* C8: the edge list a hollow section hands to generate has no edge of
\* length zero and no two edges joining the same pair of points.
C8_SeamEdgesDistinct ==
    (pc # "define_edges" /\ (HSSRectInput \/ HSSCircInput)) =>
        ~ZeroLengthEdge /\ ~DuplicateEdge

\* a rectangular hollow section has handed its edges to generate
C8_Witness ==
    /\ HSSRectInput
    /\ pc = "define_halfedges"
    /\ Len(edges) = 12

SnapNames ==
    {"centroid", "top_center", "top_left", "top_right", "center_left",
     "center_right", "bottom_center", "bottom_left", "bottom_right"}

\* the corners and the centroid entry, and rect_mesh(10, 4)
SnapCorners ==
    LET bbox == bounding_box(mesh)
    IN  /\ DOMAIN snap = SnapNames
        /\ snap.centroid = <<0, 0>>
        /\ snap.top_left = <<-bbox[1], -bbox[4]>>
        /\ snap.top_right = <<-bbox[3], -bbox[4]>>
        /\ snap.bottom_left = <<-bbox[1], -bbox[2]>>
        /\ snap.bottom_right = <<-bbox[3], -bbox[2]>>
        /\ shape = <<"rect_mesh", 10, 4, 0>> =>
              /\ bbox = <<-5, -2, 5, 2>>
              /\ snap.top_right = <<-5, -2>>

\* C9 as stated: nine points, the corners the negated corners of the
\* bounding box, the four centre entries the negated midpoints of its sides
\* (doubled here, to stay in the integers), centroid (0, 0).
C9_NegatedBoxMidpoints ==
    pc = "snapped" =>
        LET bbox == bounding_box(mesh)
        IN  /\ SnapCorners
            /\ 2 * snap.top_center[1] = -(bbox[1] + bbox[3])
            /\ snap.top_center[2] = -bbox[4]
            /\ 2 * snap.bottom_center[1] = -(bbox[1] + bbox[3])
            /\ snap.bottom_center[2] = -bbox[2]
            /\ snap.center_left[1] = -bbox[1]
            /\ 2 * snap.center_left[2] = -(bbox[2] + bbox[4])
            /\ snap.center_right[1] = -bbox[3]
            /\ 2 * snap.center_right[2] = -(bbox[2] + bbox[4])

\* C9 as amended: the four centre entries are the negated points (0, y_max),
\* (0, y_min), (z_min, 0), (z_max, 0): the extents of the box on the axes
\* through the origin, which are the midpoints of its sides only when the
\* box is centred on the origin.
C9_NegatedBoxExtents ==
    pc = "snapped" =>
        LET bbox == bounding_box(mesh)
        IN  /\ SnapCorners
            /\ snap.top_center = <<0, -bbox[4]>>
            /\ snap.bottom_center = <<0, -bbox[2]>>
            /\ snap.center_left = <<-bbox[1], 0>>
            /\ snap.center_right = <<-bbox[3], 0>>

\* the snap points of rect_mesh(10, 4)
C9_Witness ==
    /\ pc = "snapped"
    /\ shape = <<"rect_mesh", 10, 4, 0>>

Norm2(p) == p[1] * p[1] + p[2] * p[2]

\* C10: apart from the seam points, HSS_circ_mesh places the outer points at
\* distance od/2 from the origin and the inner points at distance
\* od/2 - tdes (squared and times four, to stay in the integers).
C10_Radii ==
    (shape[1] = "HSS_circ_mesh" /\ pc # "define_edges") =>
        LET od == shape[2]
            tdes == shape[3]
            n == shape[4]
        IN  /\ \A k \in 2..(n - 1) : 4 * Norm2(vtab[k]) = od * od
            /\ \A k \in (n + 2)..(2 * n - 1) :
                  4 * Norm2(vtab[k]) = (od - 2 * tdes) * (od - 2 * tdes)

----------------------------------------------------------------------------
(* w_mesh *)

\* the nominal area of the call's section exceeds its target area
NominalExceedsTarget ==
    /\ w_args[5] # None
    /\ nominal_area(w_args[1], w_args[2], w_args[3], w_args[4]) > w_args[5][1]

\* C11: with a target area supplied, w_mesh computes r, and r is a number
\* that is not negative; whenever the nominal area exceeds the target area,
\* the area difference r is computed from is the fallback 1e-4, and r is
\* the small positive number that follows from it (0.0103).
C11_FilletRadius ==
    /\ (pc = "error" => w_args[5] = None)
    /\ (pc = "w_vertices" =>
            /\ ~r_fillet.nan
            /\ r_fillet.val >= 0
            /\ (NominalExceedsTarget =>
                    /\ area_diff = AreaFallback
                    /\ r_fillet.val = 103))

\* r has been computed for a section whose nominal area exceeds the target
C11_Witness ==
    /\ pc = "w_vertices"
    /\ NominalExceedsTarget

----------------------------------------------------------------------------
(* Collection *)

\* the last call was collection.add(obj), obj having a uid
Added(obj) == call = <<"add", obj>> /\ obj # None

\* C12: every key k of a Collection maps to an object whose uid is k; add(obj)
\* stores obj under obj.uid when that is no key yet, and raises ValueError and
\* leaves the collection as it was when it is; no add replaces or removes
\* the object a key maps to.
C12_CollectionAdd ==
    /\ [](\A k \in DOMAIN collection : uid_of(collection[k]) = k)
    /\ [][\A obj \in Objects : Added(obj)' =>
            /\ \A k \in DOMAIN collection :
                  k \in DOMAIN collection' /\ collection'[k] = collection[k]
            /\ IF uid_of(obj) \in DOMAIN collection
               THEN err' = "ValueError" /\ collection' = collection
               ELSE /\ err' = ""
                    /\ DOMAIN collection' = DOMAIN collection \cup {uid_of(obj)}
                    /\ collection'[uid_of(obj)] = obj]_vars

\* add has rejected an object whose uid another object is stored under
C12_Witness ==
    /\ err = "ValueError"
    /\ \E obj \in Objects :
          /\ Added(obj)
          /\ uid_of(obj) \in DOMAIN collection
          /\ collection[uid_of(obj)] # obj

----------------------------------------------------------------------------
(* ComponentAssemblyCollection *)

\* the key an assembly has, or would have, in connectivity_map
connectivity_key(obj) == sorted(external_uids(obj))

\* the assemblies held in the collection that connectivity_map knows:
\* those whose add went through
Connected ==
    {assemblies[u] : u \in {k \in DOMAIN assemblies :
        /\ connectivity_key(assemblies[k]) \in DOMAIN connectivity_map
        /\ connectivity_map[connectivity_key(assemblies[k])] = k}}

\* C13: whatever adds were made, every assembly held in the collection has
\* exactly one connectivity_map entry, under the sorted tuple of its
\* external-node uids and with its uid as the value, and every
\* connectivity_map value is the uid of an assembly held in the collection.
C13_OneToOne ==
    /\ \A u \in DOMAIN assemblies :
          {k \in DOMAIN connectivity_map : connectivity_map[k] = u}
              = {connectivity_key(assemblies[u])}
    /\ \A k \in DOMAIN connectivity_map :
          connectivity_map[k] \in DOMAIN assemblies

\* C17: an add that raises ValueError leaves the assemblies held in the
\* collection and connectivity_map exactly as they were before the call.
C17_RejectedAddChangesNothing ==
    [][(call'[1] = "add" /\ err' = "ValueError") =>
          /\ assemblies' = assemblies
          /\ connectivity_map' = connectivity_map]_vars

\* the last call was the search `name`
Searched(name) == call # <<>> /\ call[1] = name

\* the uids of the assemblies that were added and have the key `key`
Hits(key) ==
    {u \in DOMAIN assemblies :
        /\ connectivity_key(assemblies[u]) = key
        /\ key \in DOMAIN connectivity_map
        /\ connectivity_map[key] = u}

\* what a search for an assembly with the key `key` is to find
Sought(key) ==
    LET hits == Hits(key)
    IN  IF hits = {} THEN None ELSE assemblies[CHOOSE u \in hits : TRUE]

\* C14 as claimed: search_by_nodes(nodes) returns the assembly whose set of
\* external-node uids is the set of the uids of nodes, and None when no
\* assembly that was added has that set; search_by_nodes_or_raise raises
\* ValueError exactly when search_by_nodes returns None.
C14_SearchBySet ==
    [][LET found == {obj \in Connected : external_nodes(obj) = Range(call'[2])}
       IN  /\ Searched("search_by_nodes")' =>
               /\ err' = ""
               /\ IF found = {} THEN ret' = None ELSE ret' \in found
           /\ Searched("search_by_nodes_or_raise")' =>
               /\ (err' = "ValueError") = (found = {})
               /\ found # {} => (err' = "" /\ ret' \in found)]_vars

\* C14, amended: search_by_nodes(nodes) returns the assembly whose sorted
\* tuple of external-node uids is the sorted tuple of the uids of nodes,
\* whatever the order of nodes, and None when no assembly that was added has
\* that tuple; it never raises, and search_by_nodes_or_raise raises
\* ValueError exactly when search_by_nodes returns None.
C14_SearchBySortedTuple ==
    [][(Searched("search_by_nodes")' \/ Searched("search_by_nodes_or_raise")') =>
          /\ ret' = Sought(sorted(call'[2]))
          /\ Searched("search_by_nodes")' => err' = ""
          /\ Searched("search_by_nodes_or_raise")' =>
                err' = (IF ret' = None THEN "ValueError" ELSE "")]_vars

\* a search with the nodes in descending order has found an assembly
C14_Witness ==
    /\ ret # None
    /\ Searched("search_by_nodes")
    /\ Len(call[2]) = 2
    /\ call[2][1] > call[2][2]

----------------------------------------------------------------------------
(* PointMass *)

\* the kinds of mass a PointMass holds, and the default of add
MassKinds == {"mself", "floor", "other"}

\* C15: PointMass.add(mass, kind), for a mass of six components and a kind
\* of mass or the default kind, returns, and total() afterwards is total()
\* before plus mass, component by component.
C15_MassAdded ==
    [][(/\ call'[1] = "PointMass.add"
        /\ Len(call'[2]) = Dofs
        /\ call'[3] \in MassKinds) =>
          /\ err' = ""
          /\ PointMass_total(point_mass')
                = zip_add(PointMass_total(point_mass), call'[2])]_vars

----------------------------------------------------------------------------
(* previous_element *)

\* the places of dct that hold the key the last call was made with
PlacesOfKey == {i \in DOMAIN dct : dct[i][1] = call[2]}

====
